---- MODULE Spec2Model ----
(***************************************************************************)
(* Model of daily_entry.py: the daily check-in helper that asks for a date *)
(* and three details, rewrites YYYY_MM_DD.md and optionally runs           *)
(* git add / commit / push.                                                *)
(*                                                                         *)
(* Text is modelled at the level of code points: a Python str is a         *)
(* sequence of one-element tokens.  ASCII characters stand for themselves; *)
(* the CJK code points of the templates are written by their pinyin        *)
(* ("xi","jie","colon" is the label, "ji","shu" / "jian","shen" /          *)
(* "ying","yu" are the three section names).                               *)
(***************************************************************************)
EXTENDS Integers, Sequences, FiniteSets, TLC

VARIABLES
    pc,        \* position of the run in main(), or of a codec exercise
    fs,        \* the record directory ROOT: file name -> content or NoFile
    libcPadsY, \* whether the platform's strftime zero-pads %Y below 1000
    date_input,\* main: the answer of the date prompt (after defaulting)
    d,         \* main: the parsed date
    existing,  \* main: the mapping load_existing_details returned
    typed,     \* what the operator typed at the three detail prompts
    tech,      \* main: local tech
    fit,       \* main: local fit
    eng,       \* main: local eng
    answer,    \* what the operator typed at the confirmation
    io,        \* this run's file and git operations, in order
    status     \* exit status of the process, Running while it runs

vars == <<pc, fs, libcPadsY, date_input, d, existing, typed, tech, fit, eng,
          answer, io, status>>

----------------------------------------------------------------------------
(* Bounds of the checked instances.                                        *)

\* longest free-text string drawn for the codec round trip
MaxLen == 2
\* longest existing file, in lines, drawn for the decoder
MaxLines == 4

----------------------------------------------------------------------------
(* Characters and Python's str methods.                                    *)

SP == " "
NL == "\n"
FF == "\f"
GT == ">"

\* str.strip() with no argument removes whitespace; of the characters of the
\* model these are whitespace.
Whitespace == {SP, NL, FF}

\* str.splitlines() breaks at these (form feed is a line boundary too).
IsLineBreak(c) == c \in {NL, FF}

RECURSIVE lstrip_chars(_, _)
lstrip_chars(s, cs) ==
    IF s # <<>> /\ Head(s) \in cs THEN lstrip_chars(Tail(s), cs) ELSE s

RECURSIVE rstrip_chars(_, _)
rstrip_chars(s, cs) ==
    IF s # <<>> /\ s[Len(s)] \in cs
    THEN rstrip_chars(SubSeq(s, 1, Len(s) - 1), cs)
    ELSE s

strip(s) == rstrip_chars(lstrip_chars(s, Whitespace), Whitespace)

startswith(s, p) == Len(s) >= Len(p) /\ SubSeq(s, 1, Len(p)) = p

removeprefix(s, p) ==
    IF startswith(s, p) THEN SubSeq(s, Len(p) + 1, Len(s)) ELSE s

RECURSIVE splitlines_from(_, _, _)
splitlines_from(s, i, cur) ==
    IF i > Len(s) THEN (IF cur = <<>> THEN <<>> ELSE <<cur>>)
    ELSE IF IsLineBreak(s[i]) THEN <<cur>> \o splitlines_from(s, i + 1, <<>>)
    ELSE splitlines_from(s, i + 1, Append(cur, s[i]))

splitlines(s) == splitlines_from(s, 1, <<>>)

lower(s) ==
    [i \in 1..Len(s) |->
        CASE s[i] = "Y" -> "y"
          [] s[i] = "E" -> "e"
          [] s[i] = "S" -> "s"
          [] s[i] = "N" -> "n"
          [] OTHER -> s[i]]

----------------------------------------------------------------------------
(* The templates.                                                          *)

Label == <<"xi", "jie", "colon">>

HeadingTech == <<"#", "#", SP, "ji", "shu">>
HeadingFit  == <<"#", "#", SP, "jian", "shen">>
HeadingEng  == <<"#", "#", SP, "ying", "yu">>

TEMPLATE_HEAD(date_slash) == <<"#", SP>> \o date_slash \o <<NL, NL>>

\* TEMPLATE_BODY as it would be with the last section closed like the others
TEMPLATE_BODY_TrailingBlank(t, f, e) ==
       HeadingTech \o <<NL, NL>>
    \o <<GT, SP>> \o Label \o t \o <<NL, NL>>
    \o HeadingFit \o <<NL, NL>>
    \o <<GT, SP>> \o Label \o f \o <<NL, NL>>
    \o HeadingEng \o <<NL, NL>>
    \o <<GT, SP>> \o Label \o e \o <<NL, NL>>

TEMPLATE_BODY(t, f, e) ==
       HeadingTech \o <<NL, NL>>
    \o <<GT, SP>> \o Label \o t \o <<NL, NL>>
    \o HeadingFit \o <<NL, NL>>
    \o <<GT, SP>> \o Label \o f \o <<NL, NL>>
    \o HeadingEng \o <<NL, NL>>
    \o <<GT, SP>> \o Label \o e \o <<NL>>

----------------------------------------------------------------------------
(* Dates: datetime.date as a record, strftime and strptime.                *)

Digits == <<"0", "1", "2", "3", "4", "5", "6", "7", "8", "9">>

IsDigit(c) == \E n \in 1..10 : Digits[n] = c

DigitVal(c) == (CHOOSE n \in 1..10 : Digits[n] = c) - 1

Pad2(n) == <<Digits[(n \div 10) + 1], Digits[(n % 10) + 1]>>

Pad4(n) == Pad2(n \div 100) \o Pad2(n % 100)

RECURSIVE Unpadded(_)
Unpadded(n) ==
    IF n < 10 THEN <<Digits[n + 1]>>
    ELSE Unpadded(n \div 10) \o <<Digits[(n % 10) + 1]>>

\* %Y: four digits from year 1000 on; below that the C library decides
\* whether the year is zero-padded.
strftime_Y(y) == IF y >= 1000 \/ libcPadsY THEN Pad4(y) ELSE Unpadded(y)

\* d.strftime("%Y<sep>%m<sep>%d")
strftime(dt, sep) ==
    strftime_Y(dt.year) \o <<sep>> \o Pad2(dt.month) \o <<sep>> \o Pad2(dt.day)

IsLeap(y) == (y % 4 = 0 /\ y % 100 # 0) \/ y % 400 = 0

DaysInMonth(y, m) ==
    IF m = 2 THEN (IF IsLeap(y) THEN 29 ELSE 28)
    ELSE IF m \in {4, 6, 9, 11} THEN 30 ELSE 31

ValueError == [error |-> "ValueError"]

\* The regular expressions strptime compiles for the directives:
\*   %Y  \d\d\d\d     %m  1[0-2]|0[1-9]|[1-9]
\*   %d  3[01]|[12]\d|0[1-9]|[1-9]| [1-9]
\* Each gives the number matched, or -1.
MatchY(p) ==
    IF Len(p) = 4 /\ \A i \in 1..4 : IsDigit(p[i])
    THEN 1000 * DigitVal(p[1]) + 100 * DigitVal(p[2])
         + 10 * DigitVal(p[3]) + DigitVal(p[4])
    ELSE -1

MatchM(p) ==
    IF Len(p) = 2 /\ p[1] = "1" /\ p[2] \in {"0", "1", "2"}
        THEN 10 + DigitVal(p[2])
    ELSE IF Len(p) = 2 /\ p[1] = "0" /\ IsDigit(p[2]) /\ p[2] # "0"
        THEN DigitVal(p[2])
    ELSE IF Len(p) = 1 /\ IsDigit(p[1]) /\ p[1] # "0"
        THEN DigitVal(p[1])
    ELSE -1

MatchD(p) ==
    IF Len(p) = 2 /\ p[1] = "3" /\ p[2] \in {"0", "1"}
        THEN 30 + DigitVal(p[2])
    ELSE IF Len(p) = 2 /\ p[1] \in {"1", "2"} /\ IsDigit(p[2])
        THEN 10 * DigitVal(p[1]) + DigitVal(p[2])
    ELSE IF Len(p) = 2 /\ p[1] \in {"0", SP} /\ IsDigit(p[2]) /\ p[2] # "0"
        THEN DigitVal(p[2])
    ELSE IF Len(p) = 1 /\ IsDigit(p[1]) /\ p[1] # "0"
        THEN DigitVal(p[1])
    ELSE -1

\* datetime.strptime(text, "%Y-%m-%d").date(): the whole text has to match
\* the pattern, and the numbers have to name a day of the calendar.
parse_date(text) ==
    LET fits(ml, dl) ==
            /\ Len(text) = 6 + ml + dl
            /\ text[5] = "-"
            /\ text[6 + ml] = "-"
            /\ MatchY(SubSeq(text, 1, 4)) # -1
            /\ MatchM(SubSeq(text, 6, 5 + ml)) # -1
            /\ MatchD(SubSeq(text, 7 + ml, 6 + ml + dl)) # -1
        cands == {c \in {1, 2} \X {1, 2} : fits(c[1], c[2])}
    IN  IF cands = {} THEN ValueError
        ELSE LET c == CHOOSE c \in cands : TRUE
                 y == MatchY(SubSeq(text, 1, 4))
                 m == MatchM(SubSeq(text, 6, 5 + c[1]))
                 dd == MatchD(SubSeq(text, 7 + c[1], 6 + c[1] + c[2]))
             IN  IF y >= 1 /\ dd <= DaysInMonth(y, m)
                 THEN [year |-> y, month |-> m, day |-> dd]
                 ELSE ValueError

----------------------------------------------------------------------------
(* The record codec.                                                       *)

\* The value fs gives a path that does not exist (no content is this tuple).
NoFile == <<"NoFile">>

Keys == {"tech", "fit", "eng"}

EmptyDict == [k \in {} |-> <<>>]

\* dict.get(key, default)
get(dict, key, default) == IF key \in DOMAIN dict THEN dict[key] ELSE default

\* dict[key] = value
set(dict, key, value) ==
    [k \in DOMAIN dict \cup {key} |-> IF k = key THEN value ELSE dict[k]]

\* sections = {"## 技术": "tech", "## 健身": "fit", "## 英语": "eng"}
sections == [h \in {HeadingTech, HeadingFit, HeadingEng} |->
                IF h = HeadingTech THEN "tech"
                ELSE IF h = HeadingFit THEN "fit" ELSE "eng"]

None == "None"

\* detail_of as it would be if a line without the label gave no text at all
detail_of_NoLabelEmpty(line) ==
    IF startswith(strip(lstrip_chars(line, {GT})), Label)
    THEN strip(removeprefix(strip(lstrip_chars(line, {GT})), Label))
    ELSE <<>>

\* detail_of as it would be with .lstrip("细节：") for .removeprefix("细节：")
detail_of_LstripLabel(line) ==
    strip(lstrip_chars(strip(lstrip_chars(line, {GT})), {"xi", "jie", "colon"}))

\* detail_of as it would be without .removeprefix("细节：")
detail_of_KeepsLabel(line) == strip(lstrip_chars(line, {GT}))

\* line.lstrip(">").strip().removeprefix("细节：").strip()
detail_of(line) ==
    strip(removeprefix(strip(lstrip_chars(line, {GT})), Label))

\* scan as it would be without "current = None" after a detail line
RECURSIVE scan_KeepsCurrent(_, _, _, _)
scan_KeepsCurrent(lines, i, current, details) ==
    IF i > Len(lines) THEN details
    ELSE IF lines[i] \in DOMAIN sections
        THEN scan_KeepsCurrent(lines, i + 1, sections[lines[i]], details)
    ELSE IF current # None /\ startswith(lines[i], <<GT>>)
        THEN scan_KeepsCurrent(lines, i + 1, current,
                               set(details, current, detail_of(lines[i])))
    ELSE scan_KeepsCurrent(lines, i + 1, current, details)

\* The for loop of load_existing_details from line i on.
RECURSIVE scan(_, _, _, _)
scan(lines, i, current, details) ==
    IF i > Len(lines) THEN details
    ELSE IF lines[i] \in DOMAIN sections
        THEN scan(lines, i + 1, sections[lines[i]], details)
    ELSE IF current # None /\ startswith(lines[i], <<GT>>)
        THEN scan(lines, i + 1, None, set(details, current, detail_of(lines[i])))
    ELSE scan(lines, i + 1, current, details)

\* load_existing_details as it would be if a missing file gave three empty
\* details instead of no details
load_existing_details_Prefilled(content) ==
    IF content = NoFile THEN [k \in Keys |-> <<>>]
    ELSE scan(splitlines(content), 1, None, EmptyDict)

\* content is what the path holds: NoFile when it does not exist.
load_existing_details(content) ==
    IF content = NoFile THEN EmptyDict
    ELSE scan(splitlines(content), 1, None, EmptyDict)

\* The content write_file leaves at the path.
write_file(dt, t, f, e) ==
    TEMPLATE_HEAD(strftime(dt, "/")) \o TEMPLATE_BODY(t, f, e)

\* fname = d.strftime("%Y_%m_%d.md")
fname(dt) == strftime(dt, "_") \o <<".", "m", "d">>

----------------------------------------------------------------------------
(* The values a run starts with.                                           *)

Running == <<>>

Today == [year |-> 2024, month |-> 3, day |-> 5]

NoDate == [error |-> "unset"]

\* Locals of main() before it assigns them.
LocalsUnset ==
    /\ date_input = <<>>
    /\ d = NoDate
    /\ existing = EmptyDict
    /\ typed = <<>>
    /\ tech = <<>>
    /\ fit = <<>>
    /\ eng = <<>>
    /\ answer = <<>>
    /\ io = <<>>
    /\ status = Running

----------------------------------------------------------------------------
(* The decoder on its own: load_existing_details applied to one existing   *)
(* path, over every file of at most MaxLines lines of the kinds below.     *)

DetailX  == <<GT, SP>> \o Label \o <<"x">>           \* "> 细节：x"
RawY     == <<GT, SP, "y">>                          \* "> y"
MessyW   == <<GT, GT>> \o Label \o <<SP, "w", SP>>   \* ">>细节： w "
Blank    == <<>>
Indented == <<SP, GT, SP>> \o Label \o <<"z">>       \* " > 细节：z"
Trailing == HeadingTech \o <<SP>>                    \* "## 技术 "

LineKinds == {HeadingTech, HeadingFit, HeadingEng,
              DetailX, RawY, MessyW, Blank, Indented, Trailing}

RECURSIVE Unlines(_)
Unlines(ls) == IF ls = <<>> THEN <<>> ELSE Head(ls) \o <<NL>> \o Unlines(Tail(ls))

DecoderInputs ==
    {NoFile} \cup
    {Unlines(ls) : ls \in UNION {[1..n -> LineKinds] : n \in 0..MaxLines}}

DecPath == fname(Today)

InitDecode ==
    /\ pc = "dec_ready"
    /\ libcPadsY = FALSE
    /\ \E content \in DecoderInputs : fs = [p \in {DecPath} |-> content]
    /\ LocalsUnset

\* existing = load_existing_details(path)
DecodeLoad ==
    /\ pc = "dec_ready"
    /\ existing' = load_existing_details(fs[DecPath])
    /\ pc' = "dec_done"
    /\ UNCHANGED <<fs, libcPadsY, date_input, d, typed, tech, fit, eng,
                   answer, io, status>>

NextDecode == DecodeLoad

SpecDecode == InitDecode /\ [][NextDecode]_vars

----------------------------------------------------------------------------
(* Properties of the decoder (checked under SpecDecode).                   *)

IsHeading(l) == l \in {HeadingTech, HeadingFit, HeadingEng}

KeyOf(l) == IF l = HeadingTech THEN "tech"
            ELSE IF l = HeadingFit THEN "fit" ELSE "eng"

IsQuote(l) == l # <<>> /\ l[1] = GT

\* The lines of the decoded file, cut at the newline characters.
RECURSIVE CutAtNL(_)
CutAtNL(s) ==
    IF s = <<>> THEN <<>>
    ELSE LET n == CHOOSE n \in 1..Len(s) :
                      s[n] = NL /\ \A m \in 1..(n - 1) : s[m] # NL
         IN  <<SubSeq(s, 1, n - 1)>> \o CutAtNL(SubSeq(s, n + 1, Len(s)))

DecLines == CutAtNL(fs[DecPath])

\* Index of the first line after i that begins with '>', 0 if there is none.
FirstQuoteAfter(ls, i) ==
    LET js == {j \in (i + 1)..Len(ls) : IsQuote(ls[j])}
    IN  IF js = {} THEN 0 ELSE CHOOSE j \in js : \A m \in js : j <= m

\* The heading occurrences of key k.
Occurrences(ls, k) == {i \in 1..Len(ls) : IsHeading(ls[i]) /\ KeyOf(ls[i]) = k}

\* Occurrence i binds a detail line: a '>' line follows it and no recognized
\* heading stands between the two.
Binds(ls, i) ==
    /\ FirstQuoteAfter(ls, i) # 0
    /\ \A m \in (i + 1)..(FirstQuoteAfter(ls, i) - 1) : ~IsHeading(ls[m])

MaxOf(S) == CHOOSE i \in S : \A m \in S : m <= i

Decoded == pc = "dec_done" /\ fs[DecPath] # NoFile

\* C7: when the record file is missing or its content is empty,
\* load_existing_details returns the empty mapping and the run goes on
\* (no error ends it).
C7_AbsentContentGivesEmptyMapping ==
    (pc = "dec_done" /\ fs[DecPath] \in {NoFile, <<>>})
        => (existing = EmptyDict /\ status = Running)

C7_Witness == pc = "dec_done" /\ fs[DecPath] = NoFile /\ existing = EmptyDict

\* C8 as stated: every heading occurrence that is followed by a '>' line has
\* its field present (absent only when no '>' line follows), and the last
\* occurrence of a heading holds the text of the first '>' line after it.
C8_AsStated ==
    Decoded =>
        \A k \in Keys : \A i \in Occurrences(DecLines, k) :
            FirstQuoteAfter(DecLines, i) # 0 =>
                /\ k \in DOMAIN existing
                /\ i = MaxOf(Occurrences(DecLines, k)) =>
                      existing[k] = detail_of(DecLines[FirstQuoteAfter(DecLines, i)])

\* C8 amended: a heading occurrence binds the first later '>' line exactly
\* when no other recognized heading stands between them; the field holds the
\* text of the line bound by the last binding occurrence of its heading, and
\* is absent exactly when no occurrence of its heading binds a line.
C8_BindsNearestHeading ==
    Decoded =>
        \A k \in Keys :
            LET occ == {i \in Occurrences(DecLines, k) : Binds(DecLines, i)}
            IN  IF occ = {} THEN k \notin DOMAIN existing
                ELSE /\ k \in DOMAIN existing
                     /\ existing[k] =
                          detail_of(DecLines[FirstQuoteAfter(DecLines, MaxOf(occ))])

\* a heading, a second heading, then two '>' lines: the first '>' line goes
\* to the second heading, the later one to nobody
C8_Witness ==
    /\ pc = "dec_done"
    /\ fs[DecPath] = Unlines(<<HeadingTech, HeadingFit, DetailX, RawY>>)
    /\ DOMAIN existing = {"fit"}
    /\ existing["fit"] = <<"x">>

\* The line bound to key k, if any occurrence of its heading binds one.
BoundLine(k) ==
    LET occ == {i \in Occurrences(DecLines, k) : Binds(DecLines, i)}
    IN  IF occ = {} THEN NoFile
        ELSE DecLines[FirstQuoteAfter(DecLines, MaxOf(occ))]

LacksLabel(line) == ~startswith(strip(lstrip_chars(line, {GT})), Label)

\* C9 as stated: a bound '>' line without the label prefix gives the empty
\* string as the field's default.
C9_AsStated ==
    Decoded =>
        \A k \in Keys :
            (BoundLine(k) # NoFile /\ LacksLabel(BoundLine(k)))
                => (k \in DOMAIN existing /\ existing[k] = <<>>)

\* C9 amended: a bound '>' line without the label prefix gives the line's
\* own text, the '>' markers removed and the whitespace around it trimmed.
C9_UnlabelledLineKeepsItsText ==
    Decoded =>
        \A k \in Keys :
            (BoundLine(k) # NoFile /\ LacksLabel(BoundLine(k)))
                => /\ k \in DOMAIN existing
                   /\ existing[k] = strip(lstrip_chars(BoundLine(k), {GT}))

C9_Witness ==
    /\ pc = "dec_done"
    /\ fs[DecPath] = Unlines(<<HeadingTech, Blank, RawY>>)
    /\ existing = [k \in {"tech"} |-> <<"y">>]

----------------------------------------------------------------------------
(* The codec on its own: write_file, then load_existing_details on the     *)
(* file it wrote, over every date of CodecDates and every three strings of *)
(* FieldStrings.  input() returns no newline, so none is drawn.            *)

LongAgo == [year |-> 999, month |-> 12, day |-> 31]

CodecDates == {Today, LongAgo}

Alphabet == {"x", SP, FF}

FieldStrings ==
    UNION {[1..n -> Alphabet] : n \in 0..MaxLen}
    \cup {Label, Label \o <<"x">>, Label \o <<SP, "x">>, <<GT>>, <<GT, "x">>}

InitCodec ==
    /\ pc = "enc_ready"
    /\ d \in CodecDates
    /\ libcPadsY \in (IF d.year < 1000 THEN BOOLEAN ELSE {FALSE})
    /\ fs = [p \in {fname(d)} |-> NoFile]
    /\ tech \in FieldStrings
    /\ fit \in FieldStrings
    /\ eng \in FieldStrings
    /\ date_input = <<>>
    /\ existing = EmptyDict
    /\ typed = <<>>
    /\ answer = <<>>
    /\ io = <<>>
    /\ status = Running

\* write_file(path, d, tech, fit, eng)
CodecWrite ==
    /\ pc = "enc_ready"
    /\ fs' = [fs EXCEPT ![fname(d)] = write_file(d, tech, fit, eng)]
    /\ pc' = "enc_written"
    /\ UNCHANGED <<libcPadsY, date_input, d, existing, typed, tech, fit, eng,
                   answer, io, status>>

\* load_existing_details(path)
CodecLoad ==
    /\ pc = "enc_written"
    /\ existing' = load_existing_details(fs[fname(d)])
    /\ pc' = "enc_loaded"
    /\ UNCHANGED <<fs, libcPadsY, date_input, d, typed, tech, fit, eng,
                   answer, io, status>>

NextCodec == CodecWrite \/ CodecLoad

SpecCodec == InitCodec /\ [][NextCodec]_vars

----------------------------------------------------------------------------
(* Properties of the codec (checked under SpecCodec).                      *)

Fields == [k \in Keys |-> IF k = "tech" THEN tech
                          ELSE IF k = "fit" THEN fit ELSE eng]

\* C1 as stated: decoding what write_file wrote gives back the three strings
\* whenever all three are non-empty.
C1_AsStated ==
    (pc = "enc_loaded" /\ tech # <<>> /\ fit # <<>> /\ eng # <<>>)
        => existing = Fields

\* No whitespace at either end and no line boundary inside.
Plain(s) ==
    /\ s # <<>>
    /\ s[1] \notin Whitespace
    /\ s[Len(s)] \notin Whitespace
    /\ \A i \in 1..Len(s) : ~IsLineBreak(s[i])

\* C1 amended: decoding what write_file wrote gives back the three strings
\* whenever each is non-empty, neither starts nor ends with whitespace and
\* holds no line-boundary character.
C1_RoundTripOfPlainStrings ==
    (pc = "enc_loaded" /\ Plain(tech) /\ Plain(fit) /\ Plain(eng))
        => existing = Fields

C1_Witness ==
    /\ pc = "enc_loaded"
    /\ tech = Label \o <<"x">>
    /\ fit = <<GT, "x">>
    /\ eng = <<"x", "x">>
    /\ existing = Fields

\* "YYYY/MM/DD" of a date
Slashed(dt) ==
    Pad4(dt.year) \o <<"/">> \o Pad2(dt.month) \o <<"/">> \o Pad2(dt.day)

DetailLine(text) == <<GT, SP>> \o Label \o text

Written == pc \in {"enc_written", "enc_loaded"}

\* C6 as stated: the first line, then three sections, each a heading, a
\* blank line, the detail line and a blank line (read with or without the
\* blank line the layout of the file format shows under the first line).
C6_AsStated ==
    Written =>
        fs[fname(d)] \in
            { Unlines(<<<<"#", SP>> \o Slashed(d)>> \o gap \o
                      << HeadingTech, Blank, DetailLine(tech), Blank,
                         HeadingFit, Blank, DetailLine(fit), Blank,
                         HeadingEng, Blank, DetailLine(eng), Blank >>)
              : gap \in {<<>>, <<Blank>>} }

\* C6 amended: for a date whose year prints with four digits, the file is
\* the line "# YYYY/MM/DD", a blank line, then the three sections in the
\* order tech, fit, eng, each a heading, a blank line and the detail line
\* with the label and exactly the supplied text; one blank line separates
\* consecutive sections and the last detail line ends the file.
C6_LayoutWithoutTrailingBlank ==
    (Written /\ (d.year >= 1000 \/ libcPadsY)) =>
        fs[fname(d)] =
            Unlines(<< <<"#", SP>> \o Slashed(d), Blank,
                       HeadingTech, Blank, DetailLine(tech), Blank,
                       HeadingFit, Blank, DetailLine(fit), Blank,
                       HeadingEng, Blank, DetailLine(eng) >>)

C6_Witness ==
    /\ pc = "enc_written"
    /\ d = Today
    /\ tech = <<>>
    /\ fit = <<"x", SP>>
    /\ eng = Label
    /\ fs[fname(d)] # NoFile

----------------------------------------------------------------------------
(* The operator's prompts.                                                 *)

\* prompt as it would be if the default were used only when given nothing
\* to strip (val compared before .strip())
prompt_NoStrip(raw, default) == IF raw = <<>> THEN default ELSE raw

\* prompt(msg, default) given the line input() returned.  Every call site
\* passes a str default, so "default is not None" holds.
prompt(raw, default) ==
    LET val == strip(raw)
    IN  IF val = <<>> THEN default ELSE val

\* confirm as it would be if an empty answer meant yes whatever the default
confirm_EmptyMeansYes(raw, default) ==
    LET val == lower(strip(raw))
    IN  IF val = <<>> THEN TRUE ELSE val \in {<<"y">>, <<"y", "e", "s">>}

\* confirm(msg, default) given the line input() returned
confirm(raw, default) ==
    LET val == lower(strip(raw))
    IN  IF val = <<>> THEN default ELSE val \in {<<"y">>, <<"y", "e", "s">>}

\* The status the process ends with on raise SystemExit(code), code an int.
ExitStatus(code) == code % 256

----------------------------------------------------------------------------
(* Runs of main(), one after the other, on the same directory.             *)

NextDay == [year |-> 2024, month |-> 3, day |-> 6]

\* What the operator may type at the date prompt.
DateInputs ==
    { <<>>,                                                   \* (today)
      <<"2", "0", "2", "4", "-", "0", "3", "-", "0", "6">>,   \* 2024-03-06
      <<"2", "0", "2", "4", "-", "3", "-", "5">>,             \* 2024-3-5
      <<"0", "3", "/", "0", "5", "/", "2", "0", "2", "4">>,   \* 03/05/2024
      <<"2", "0", "2", "4", "-", "0", "2", "-", "3", "0">> }  \* 2024-02-30

\* What the operator may type at a detail prompt.
DetailInputs == { <<>>, <<SP>>, <<SP, "y">>, <<"y", FF, "y">> }

\* What the operator may type at the confirmation.
Answers == { <<>>, <<"n">>, <<"y">>, <<"Y", "E", "S", SP>>, <<"y", "y">> }

\* Completion statuses of a git command (-15: ended by SIGTERM).
ReturnCodes == {0, 1, -15}

\* An existing file written by hand: a heading with an unlabelled detail
\* line, and a heading with nothing under it.
HandWritten == Unlines(<<HeadingTech, RawY, Blank, HeadingEng>>)

FileNames == {fname(Today), fname(NextDay)}

InitialDirs ==
    { [p \in FileNames |-> NoFile],
      [p \in FileNames |-> IF p = fname(Today) THEN HandWritten ELSE NoFile] }

Init ==
    /\ pc = "start"
    /\ libcPadsY = FALSE      \* no year of these runs is below 1000
    /\ fs \in InitialDirs
    /\ LocalsUnset

path == fname(d)

\* The process ends with the given status; its locals end with it.
Exit(code) ==
    /\ pc' = "exit"
    /\ status' = <<code>>
    /\ d' = NoDate
    /\ existing' = EmptyDict
    /\ typed' = <<>>
    /\ tech' = <<>>
    /\ fit' = <<>>
    /\ eng' = <<>>

\* The run goes on at pc "next" with its locals as they are.
Goto(next) ==
    /\ pc' = next
    /\ UNCHANGED <<status, d, existing, typed, tech, fit, eng>>

\* lines 76-83: the date prompt and parse_date; a ValueError becomes
\* SystemExit with a message, which ends the process with status 1
MainDate ==
    /\ pc = "start"
    /\ \E raw \in DateInputs :
         LET text == prompt(raw, strftime(Today, "-"))
         IN  /\ date_input' = text
             /\ IF parse_date(text) = ValueError
                THEN Exit(1)
                ELSE /\ pc' = "load"
                     /\ d' = parse_date(text)
                     /\ UNCHANGED <<status, existing, typed, tech, fit, eng>>
    /\ UNCHANGED <<fs, libcPadsY, answer, io>>

\* line 85: existing = load_existing_details(path)
MainLoad ==
    /\ pc = "load"
    /\ existing' = load_existing_details(fs[path])
    /\ io' = Append(io, <<"load", 0>>)
    /\ pc' = "tech"
    /\ UNCHANGED <<fs, libcPadsY, date_input, d, typed, tech, fit, eng,
                   answer, status>>

\* line 87: tech = prompt(..., default=existing.get("tech", ""))
MainTech ==
    /\ pc = "tech"
    /\ \E raw \in DetailInputs :
         /\ typed' = Append(typed, raw)
         /\ tech' = prompt(raw, get(existing, "tech", <<>>))
    /\ pc' = "fit"
    /\ UNCHANGED <<fs, libcPadsY, date_input, d, existing, fit, eng, answer,
                   io, status>>

\* line 88: fit = prompt(..., default=existing.get("fit", ""))
MainFit ==
    /\ pc = "fit"
    /\ \E raw \in DetailInputs :
         /\ typed' = Append(typed, raw)
         /\ fit' = prompt(raw, get(existing, "fit", <<>>))
    /\ pc' = "eng"
    /\ UNCHANGED <<fs, libcPadsY, date_input, d, existing, tech, eng, answer,
                   io, status>>

\* line 89: eng = prompt(..., default=existing.get("eng", ""))
MainEng ==
    /\ pc = "eng"
    /\ \E raw \in DetailInputs :
         /\ typed' = Append(typed, raw)
         /\ eng' = prompt(raw, get(existing, "eng", <<>>))
    /\ pc' = "write"
    /\ UNCHANGED <<fs, libcPadsY, date_input, d, existing, tech, fit, answer,
                   io, status>>

\* line 91: write_file(path, d, tech, fit, eng)
MainWrite ==
    /\ pc = "write"
    /\ fs' = [fs EXCEPT ![path] = write_file(d, tech, fit, eng)]
    /\ io' = Append(io, <<"write", 0>>)
    /\ pc' = "confirm"
    /\ UNCHANGED <<libcPadsY, date_input, d, existing, typed, tech, fit, eng,
                   answer, status>>

\* lines 94-95: if not confirm(...): return
MainConfirm ==
    /\ pc = "confirm"
    /\ \E raw \in Answers :
         /\ answer' = raw
         /\ IF confirm(raw, FALSE) THEN Goto("add") ELSE Exit(0)
    /\ UNCHANGED <<fs, libcPadsY, date_input, io>>

\* lines 98-101: git add fname; a non-zero returncode is SystemExit(returncode)
MainAdd ==
    /\ pc = "add"
    /\ \E rc \in ReturnCodes :
         /\ io' = Append(io, <<"add", rc>>)
         /\ IF rc # 0 THEN Exit(ExitStatus(rc)) ELSE Goto("commit")
    /\ UNCHANGED <<fs, libcPadsY, date_input, answer>>

\* MainCommit as it would be if a failed commit were printed and not raised
MainCommit_NoRaise ==
    /\ pc = "commit"
    /\ \E rc \in ReturnCodes :
         /\ io' = Append(io, <<"commit", rc>>)
         /\ Goto("push")
    /\ UNCHANGED <<fs, libcPadsY, date_input, answer>>

\* lines 103-108: git commit -m commit_msg
MainCommit ==
    /\ pc = "commit"
    /\ \E rc \in ReturnCodes :
         /\ io' = Append(io, <<"commit", rc>>)
         /\ IF rc # 0 THEN Exit(ExitStatus(rc)) ELSE Goto("push")
    /\ UNCHANGED <<fs, libcPadsY, date_input, answer>>

\* lines 110-114: git push, after which main returns
MainPush ==
    /\ pc = "push"
    /\ \E rc \in ReturnCodes :
         /\ io' = Append(io, <<"push", rc>>)
         /\ IF rc # 0 THEN Exit(ExitStatus(rc)) ELSE Exit(0)
    /\ UNCHANGED <<fs, libcPadsY, date_input, answer>>

\* The operator starts the script again: a new process on the same directory.
Restart ==
    /\ pc = "exit"
    /\ pc' = "start"
    /\ date_input' = <<>>
    /\ answer' = <<>>
    /\ io' = <<>>
    /\ status' = Running
    /\ UNCHANGED <<fs, libcPadsY, d, existing, typed, tech, fit, eng>>

Next ==
    \/ MainDate
    \/ MainLoad
    \/ MainTech
    \/ MainFit
    \/ MainEng
    \/ MainWrite
    \/ MainConfirm
    \/ MainAdd
    \/ MainCommit
    \/ MainPush
    \/ Restart

Spec == Init /\ [][Next]_vars

----------------------------------------------------------------------------
(* Properties of the runs of main() (checked under Spec).                  *)

NoDetailTyped == <<<<>>, <<>>, <<>>>>

\* C2 as stated: whenever the file of the date exists and the operator
\* leaves all three details empty, the write leaves the file as it was.
C2_AsStated ==
    [][(pc = "write" /\ typed = NoDetailTyped /\ fs[path] # NoFile)
          => fs'[path] = fs[path]]_vars

\* The trimmed values an operator can enter that hold no line boundary.
BreakFreeValues ==
    {v \in {strip(raw) : raw \in DetailInputs} :
        \A i \in 1..Len(v) : ~IsLineBreak(v[i])}

\* The content is what write_file gives for the date and three such values.
SavedBreakFree(content, dt) ==
    \E t \in BreakFreeValues, f \in BreakFreeValues, e \in BreakFreeValues :
        content = write_file(dt, t, f, e)

\* C2 amended: whenever the file of the date is what an earlier save wrote
\* for three values without line-boundary characters, and the operator
\* leaves all three details empty, the write leaves the file as it was.
C2_ResaveOfSavedFileIsIdentical ==
    [][(pc = "write" /\ typed = NoDetailTyped /\ SavedBreakFree(fs[path], d))
          => fs'[path] = fs[path]]_vars

\* a re-save, every default accepted, of a file saved with tech and eng set
C2_Witness ==
    /\ pc = "confirm"
    /\ typed = NoDetailTyped
    /\ d = NextDay
    /\ existing = [k \in Keys |-> IF k = "fit" THEN <<>> ELSE <<"y">>]
    /\ fs[path] = write_file(d, <<"y">>, <<>>, <<"y">>)

\* The value stored for key k in the decoded file of the date, "" if none.
Stored(details, k) == IF k \in DOMAIN details THEN details[k] ELSE <<>>

\* C3 as stated: each value written is the stored one when nothing was typed
\* for it and is what was typed otherwise.
C3_AsStated ==
    [][pc = "write" =>
          LET before == load_existing_details(fs[path])
          IN  fs'[path] = write_file(d,
                  IF typed[1] = <<>> THEN Stored(before, "tech") ELSE typed[1],
                  IF typed[2] = <<>> THEN Stored(before, "fit") ELSE typed[2],
                  IF typed[3] = <<>> THEN Stored(before, "eng") ELSE typed[3])]_vars

OnlyWhitespace(s) == \A i \in 1..Len(s) : s[i] \in Whitespace

\* The typed text without the whitespace before and after it.
RECURSIVE Trimmed(_)
Trimmed(s) ==
    IF s = <<>> THEN s
    ELSE IF s[1] \in Whitespace THEN Trimmed(Tail(s))
    ELSE IF s[Len(s)] \in Whitespace THEN Trimmed(SubSeq(s, 1, Len(s) - 1))
    ELSE s

\* C3 amended: each value written is the stored one when what was typed for
\* it is empty or only whitespace, and otherwise is what was typed with the
\* whitespace around it removed.
C3_MergeOfTrimmedInput ==
    [][pc = "write" =>
          LET before == load_existing_details(fs[path])
              merged(i, k) == IF OnlyWhitespace(typed[i]) THEN Stored(before, k)
                              ELSE Trimmed(typed[i])
          IN  fs'[path] = write_file(d, merged(1, "tech"), merged(2, "fit"),
                                     merged(3, "eng"))]_vars

\* tech kept from the hand-written file, fit typed with a blank before it,
\* eng typed as a single blank
C3_Witness ==
    /\ pc = "confirm"
    /\ typed = <<<<>>, <<SP, "y">>, <<SP>>>>
    /\ existing = [k \in {"tech"} |-> <<"y">>]
    /\ fs[path] = write_file(d, <<"y">>, <<"y">>, <<>>)

\* The text has the shape YYYY-MM-DD: digits, with '-' at places 5 and 8.
MatchesYMD(text) ==
    /\ Len(text) = 10
    /\ \A i \in {1, 2, 3, 4, 6, 7, 9, 10} : IsDigit(text[i])
    /\ text[5] = "-"
    /\ text[8] = "-"

\* C4: whenever the date given does not have the shape YYYY-MM-DD, the run
\* has ended with a non-zero status without touching a file or running git.
C4_AsStated ==
    (pc # "start" /\ ~MatchesYMD(date_input))
        => (pc = "exit" /\ status \notin {Running, <<0>>} /\ io = <<>>)

IsGit(e) == e[1] \in {"add", "commit", "push"}

\* C5: a git command that ended with a non-zero status is the last
\* operation of its run, and the run has exited with a non-zero status.
C5_PublishShortCircuit ==
    \A i \in 1..Len(io) :
        (IsGit(io[i]) /\ io[i][2] # 0)
            => (i = Len(io) /\ pc = "exit" /\ status \notin {Running, <<0>>})

\* add succeeded, commit failed, push was never run
C5_Witness ==
    /\ pc = "exit"
    /\ io = <<<<"load", 0>>, <<"write", 0>>, <<"add", 0>>, <<"commit", 1>>>>
    /\ status = <<1>>

GitCommands == [i \in 1..Len(SelectSeq(io, IsGit)) |-> SelectSeq(io, IsGit)[i][1]]

IsPrefix(s, t) == Len(s) <= Len(t) /\ s = SubSeq(t, 1, Len(s))

\* The file was written in this run before the first git command.
WrittenBeforeGit ==
    \E j \in 1..Len(io) :
        /\ io[j][1] = "write"
        /\ \A i \in 1..j : ~IsGit(io[i])

\* The git commands of a run are add, commit, push in this order, each at
\* most once, and come after the write of the file.
GitInOrderAfterWrite ==
    /\ IsPrefix(GitCommands, <<"add", "commit", "push">>)
    /\ GitCommands # <<>> => WrittenBeforeGit

\* C10 as stated: git runs only after the write and only when the answer
\* is 'y' or 'yes'; any other answer ends the run with no git command.
C10_AsStated ==
    /\ GitInOrderAfterWrite
    /\ GitCommands # <<>> => answer \in {<<"y">>, <<"y", "e", "s">>}
    /\ (pc \in {"add", "commit", "push"}) => answer \in {<<"y">>, <<"y", "e", "s">>}

\* The answer with the blanks around it removed and its letters lowered.
Normalized(s) ==
    [i \in 1..Len(Trimmed(s)) |->
        IF Trimmed(s)[i] = "Y" THEN "y"
        ELSE IF Trimmed(s)[i] = "E" THEN "e"
        ELSE IF Trimmed(s)[i] = "S" THEN "s"
        ELSE Trimmed(s)[i]]

SaidYes == Normalized(answer) \in {<<"y">>, <<"y", "e", "s">>}

\* C10 amended: git runs only after the write and only when the answer,
\* whitespace around it ignored and in any letter case, is 'y' or 'yes';
\* any other answer ends the run with no git command.
C10_PublishGatedAndOrdered ==
    /\ GitInOrderAfterWrite
    /\ GitCommands # <<>> => SaidYes
    /\ (pc \in {"add", "commit", "push"}) => SaidYes

C10_Witness ==
    /\ pc = "exit"
    /\ answer = <<"Y", "E", "S", SP>>
    /\ io = <<<<"load", 0>>, <<"write", 0>>,
              <<"add", 0>>, <<"commit", 0>>, <<"push", 0>>>>
    /\ status = <<0>>

====
